---- MODULE Spec2Model ----
(***************************************************************************)
(* Model of the resumable crawler of scripts/scrape_books.py: run() walks  *)
(* the category index, paginates every category, fetches every product     *)
(* detail page that is not yet in the seen set, numbers the records,       *)
(* checkpoints the CSV file and flushes it at the end.                     *)
(*                                                                         *)
(* The upstream site is part of the state and is fixed by Init; a run's    *)
(* parameters are drawn when the run starts.  Runs follow each other       *)
(* against the same output file, so that a resumed run starts from a file  *)
(* an earlier run of the program wrote.                                    *)
(*                                                                         *)
(* Beside the crawler (Spec, FairSpec) the module models, each under a     *)
(* specification of its own that leaves the crawler at rest:               *)
(* parse_book_detail over detail documents (ParserSpec), get_soup over the *)
(* session's Retry policy (FetchSpec), the token, trigger and read         *)
(* endpoints of api/v1.py (ApiSpec) and its route table (RouterSpec).      *)
(***************************************************************************)
EXTENDS Integers, Sequences, FiniteSets, TLC

\* ---------------------------------------------------------------- bounds
MaxItems == 2
MaxRetries == 2
MaxTicks == 3

\* Constants of api/v1.py: create_token's minutes and decode_token's leeway.
TokenMinutes == 60
Leeway == 10

\* Input domains of the upstream site and of run()'s parameters.
CatCounts == {0, 1, 2}
PageCounts == {1, 2}
Overlaps == {0, 1}
CheckpointChoices == {0, 2}
LimitValues == {1, 2}

\* ------------------------------------------------------------ primitives
Min(a, b) == IF a < b THEN a ELSE b
Max(a, b) == IF a > b THEN a ELSE b

IsPrefix(s, t) == Len(s) <= Len(t) /\ SubSeq(t, 1, Len(s)) = s

\* limit: int | None
NoLimit == [set |-> FALSE, v |-> 0]
Limit(n) == [set |-> TRUE, v |-> n]
Limits == {NoLimit} \cup {Limit(n) : n \in LimitValues}

\* str(n) of a non-negative int, as csv.DictWriter writes the id column
RECURSIVE FormatInt(_)
FormatInt(n) == IF n < 10 THEN <<n>> ELSE FormatInt(n \div 10) \o <<n % 10>>

\* int(s) of a string of decimal digits
RECURSIVE ParseInt(_)
ParseInt(s) ==
  IF Len(s) = 0 THEN 0
  ELSE 10 * ParseInt(SubSeq(s, 1, Len(s) - 1)) + s[Len(s)]

\* int(s) raises ValueError on the empty string
IntOk(s) == Len(s) > 0

\* A value of the id column in memory: the int run() assigns (line 185), or
\* the str csv.DictReader returns (line 154).
IntVal(n) == [k |-> "int", n |-> n, s |-> <<>>]
StrVal(s) == [k |-> "str", n |-> 0, s |-> s]
Str(v) == IF v.k = "int" THEN FormatInt(v.n) ELSE v.s

\* ---------------------------------------------------------- upstream site
CatNames == <<"Travel", "Poetry", "Mystery", "Fiction">>

IndexUrl == [t |-> "index", a |-> 0, b |-> 0]
PageUrl(c, p) == [t |-> "page", a |-> c, b |-> p]
BookUrl(n) == [t |-> "book", a |-> n, b |-> 0]

\* A site: nc categories of np listing pages of k products each; with ov = 1
\* the last product of a listing page is also the first of the next one
\* (the same product listed on two pages, or in two categories).
Sites ==
  [nc : CatCounts, np : PageCounts, k : 1..MaxItems, ov : Overlaps]

ProductAt(s, c, p, i) == ((c - 1) * s.np + (p - 1)) * (s.k - s.ov) + i

Slots(s) == (1..s.nc) \X (1..s.np) \X (1..s.k)

Products(s) == {ProductAt(s, x[1], x[2], x[3]) : x \in Slots(s)}

\* the breadcrumb of a product's detail page: the first category listing it
CategoryOf(s, n) ==
  LET cs == {x[1] : x \in {y \in Slots(s) : ProductAt(s, y[1], y[2], y[3]) = n}}
  IN  CatNames[CHOOSE c \in cs : \A d \in cs : c <= d]

AllUrls(s) ==
  {IndexUrl} \cup {PageUrl(c, p) : c \in 1..s.nc, p \in 1..s.np}
             \cup {BookUrl(n) : n \in Products(s)}

VARIABLES
  site, failing, transient,                      \* the upstream
  limit, checkpoint_every, resume,               \* run()'s parameters
  pc, rows, seen, success, fail, book_id,        \* run()'s locals
  categories, cidx, cat_success0,
  pages, next_url, pidx, items, iidx,
  fileExists, file,                              \* output_csv
  attempts, nloaded, file0, prev, ckpts, catFailed, disc

VARIABLES
  soup, parsed,                                  \* parse_book_detail
  retries, attempt, retry, reqs, answer,         \* get_soup
  log, slept, gpc,
  clock, ticks, held, allow_write, cache, reply, \* the API of api/v1.py
  path, routed                                   \* the API's route table

upstream == <<site, failing, transient>>
params == <<limit, checkpoint_every, resume>>
counters == <<rows, seen, success, fail, book_id>>
cursor == <<categories, cidx, cat_success0, pages, next_url, pidx, items, iidx>>
output == <<fileExists, file>>
history == <<attempts, nloaded, file0, prev, ckpts, catFailed, disc>>
crawler == <<upstream, params, pc, counters, cursor, output, history>>
parser == <<soup, parsed>>
fetcher == <<retries, attempt, retry, reqs, answer, log, slept, gpc>>
api == <<clock, ticks, held, allow_write, cache, reply>>
router == <<path, routed>>
others == <<parser, fetcher, api, router>>
vars == <<crawler, others>>

\* ------------------------------------------------------------- fetching
\* get_soup(url): what the call can end in once its retries are spent.
\* TRUE: a document; FALSE: the exception of the last attempt.
Outcomes(url) ==
  IF url \in failing THEN (IF transient THEN {TRUE, FALSE} ELSE {FALSE})
  ELSE {TRUE}

\* soup.select("article.product_pod h3 a") of listing page p of category c
ListingOf(c, p) == [i \in 1..site.k |-> ProductAt(site, c, p, i)]

\* soup.select_one("li.next a") of listing page p
HasNext(p) == p < site.np

\* get_all_categories: (name, url) of every category link, in listed order
GetAllCategories ==
  [c \in 1..site.nc |-> [name |-> CatNames[c], url |-> PageUrl(c, 1)]]

\* parse_book_detail(url): the record of a product page that parses
ParseBookDetail(n) ==
  [category |-> CategoryOf(site, n), product_page_url |-> n]

\* ------------------------------------------------------------- the file
\* csv.DictWriter: header, then one line per row, every value through str()
WriteCsv(rs) ==
  [i \in 1..Len(rs) |->
     [id |-> Str(rs[i].id), category |-> rs[i].category,
      product_page_url |-> rs[i].product_page_url]]

\* csv.DictReader: one dict of strings per line
ReadCsv(f) ==
  [i \in 1..Len(f) |->
     [id |-> StrVal(f[i].id), category |-> f[i].category,
      product_page_url |-> f[i].product_page_url]]

\* Mutant of NextIdAfter: the + 1 is lost.
NextIdAfter_NoIncrement(bid, row) ==
  IF IntOk(Str(row.id)) THEN Max(bid, ParseInt(Str(row.id))) ELSE bid

\* book_id = max(book_id, int(row.get("id", 0)) + 1), skipped when int() raises
NextIdAfter(bid, row) ==
  IF IntOk(Str(row.id)) THEN Max(bid, ParseInt(Str(row.id)) + 1) ELSE bid

RECURSIVE ResumeBookId(_, _)
ResumeBookId(bid, rs) ==
  IF Len(rs) = 0 THEN bid
  ELSE ResumeBookId(NextIdAfter(bid, Head(rs)), Tail(rs))

\* ------------------------------------------------------------ Init
\* The crawler before its first run.
RunInit ==
  /\ site \in Sites
  /\ failing \in {F \in SUBSET AllUrls(site) : Cardinality(F) <= 1}
  /\ transient \in (IF failing = {} THEN {FALSE} ELSE BOOLEAN)
  /\ limit = NoLimit /\ checkpoint_every = 0 /\ resume = FALSE
  /\ pc = "idle"
  /\ rows = <<>> /\ seen = {} /\ success = 0 /\ fail = 0 /\ book_id = 1
  /\ categories = <<>> /\ cidx = 0 /\ cat_success0 = 0
  /\ pages = <<>> /\ next_url = 0 /\ pidx = 0 /\ items = <<>> /\ iidx = 0
  /\ fileExists = FALSE /\ file = <<>>
  /\ attempts = 0 /\ nloaded = 0
  /\ file0 = [exists |-> FALSE, rows |-> <<>>] /\ prev = "none" /\ ckpts = 0 /\ catFailed = FALSE
  /\ disc = <<>>


\* ------------------------------------------------------------ run()
\* except Exception (line 203): the classes the per-item handler catches.
\* StopIteration derives from Exception in Python's built-in hierarchy.
ExceptionSubclasses == {"Exception", "StopIteration", "HTTPError", "TypeError"}
ItemHandlerCatches(e) == e \in ExceptionSubclasses

\* Mutant of AlreadySeen: the membership test is lost.
AlreadySeen_Never(u, s) == FALSE

\* if product_url in seen: continue
AlreadySeen(u, s) == u \in s

\* rows.append(book)
AppendRow(rs, book) == Append(rs, book)

\* Mutant of SeenOf: the rows read on resume are not marked as seen.
SeenOf_Empty(rs) == {}

\* seen.add(row.get("product_page_url", "")) over the rows read on resume
SeenOf(rs) == {rs[i].product_page_url : i \in 1..Len(rs)}

\* Mutant of CheckpointDue: the test reads the counter before its increment.
CheckpointDue_BeforeIncrement(every, succ) ==
  every # 0 /\ (succ - 1) % every = 0

\* if checkpoint_every and success % checkpoint_every == 0
CheckpointDue(every, succ) == every # 0 /\ succ % every = 0

\* if limit is not None and success >= limit
LimitReached(lim, succ) == lim.set /\ succ >= lim.v

\* Lines 135-163: the locals, then the rows of an existing file on resume.
StartRun ==
  /\ pc \in {"idle", "done", "aborted"}
  /\ limit' \in Limits
  /\ checkpoint_every' \in CheckpointChoices
  /\ resume' \in BOOLEAN
  /\ LET loaded == IF resume' /\ fileExists THEN ReadCsv(file) ELSE <<>>
     IN  /\ rows' = loaded
         /\ seen' = SeenOf(loaded)
         /\ book_id' = ResumeBookId(1, loaded)
         /\ nloaded' = Len(loaded)
  /\ success' = 0 /\ fail' = 0
  /\ categories' = <<>> /\ cidx' = 0 /\ cat_success0' = 0
  /\ pages' = <<>> /\ next_url' = 0 /\ pidx' = 0 /\ items' = <<>> /\ iidx' = 0
  /\ pc' = "index"
  /\ attempts' = 0 /\ ckpts' = 0 /\ catFailed' = FALSE
  /\ disc' = <<>>
  /\ file0' = [exists |-> fileExists, rows |-> file]
  /\ prev' = IF pc = "done" /\ ~limit.set THEN "full"
             ELSE IF pc = "idle" THEN "none" ELSE "other"
  /\ UNCHANGED <<others, upstream, output>>

\* Lines 170-175: the head of the loop over the categories.
EnterCategory(c) ==
  /\ cidx' = c
  /\ cat_success0' = success
  /\ pages' = <<>> /\ next_url' = 1
  /\ pidx' = 0 /\ items' = <<>> /\ iidx' = 0
  /\ catFailed' = FALSE
  /\ pc' = "paginate"

\* Mutant of FetchIndex: the output file is truncated before the index is
\* fetched.
FetchIndex_Truncating ==
  /\ pc = "index"
  /\ file' = <<>> /\ fileExists' = TRUE
  /\ \E ok \in Outcomes(IndexUrl) :
       IF ok
       THEN /\ categories' = GetAllCategories
            /\ EnterCategory(1)
       ELSE /\ pc' = "aborted"
            /\ UNCHANGED <<cursor, catFailed>>
  /\ UNCHANGED <<others, upstream, params, counters,
                 attempts, nloaded, file0, prev, ckpts, disc>>

\* Line 167: get_all_categories; its exception leaves run().
FetchIndex ==
  /\ pc = "index"
  /\ \E ok \in Outcomes(IndexUrl) :
       IF ok
       THEN /\ categories' = GetAllCategories
            /\ IF Len(GetAllCategories) > 0
               THEN EnterCategory(1)
               ELSE /\ pc' = "flush"
                    /\ UNCHANGED <<cidx, cat_success0, pages, next_url, pidx,
                                   items, iidx, catFailed>>
       ELSE /\ pc' = "aborted"
            /\ UNCHANGED <<cursor, catFailed>>
  /\ UNCHANGED <<others, upstream, params, counters, output,
                 attempts, nloaded, file0, prev, ckpts, disc>>

\* Mutant of HandleCategoryFailure: the exception leaves run().
HandleCategoryFailure_Abort ==
  /\ pc' = "aborted"
  /\ catFailed' = TRUE
  /\ UNCHANGED <<counters, output>>

\* Mutant of HandleCategoryFailure: the skipped category is counted.
HandleCategoryFailure_Counting ==
  /\ pc' = "cat_end"
  /\ catFailed' = TRUE
  /\ fail' = fail + 1
  /\ UNCHANGED <<rows, seen, success, book_id, output>>

\* Lines 209-212, then the finally clause: the category is skipped.
HandleCategoryFailure ==
  /\ pc' = "cat_end"
  /\ catFailed' = TRUE
  /\ UNCHANGED <<counters, output>>

\* Lines 92-99, one turn of iterate_category_pages' loop.
IterPage ==
  /\ pc = "paginate"
  /\ pages' = Append(pages, next_url)
  /\ \E ok \in Outcomes(PageUrl(cidx, next_url)) :
       IF ok
       THEN /\ IF HasNext(next_url)
               THEN /\ next_url' = next_url + 1
                    /\ pc' = "paginate"
                    /\ pidx' = pidx
               ELSE /\ next_url' = 0
                    /\ pc' = "listing"
                    /\ pidx' = 1
            /\ UNCHANGED <<counters, output, catFailed>>
       ELSE /\ HandleCategoryFailure
            /\ UNCHANGED <<next_url, pidx>>
  /\ UNCHANGED <<others, upstream, params, categories, cidx, cat_success0, items, iidx,
                 attempts, nloaded, file0, prev, ckpts, disc>>

\* The step after an item of a listing page: the next item, the next page,
\* or the end of the category's loops.
Advance ==
  IF iidx < Len(items)
  THEN /\ iidx' = iidx + 1
       /\ UNCHANGED <<pidx, items, pc>>
  ELSE IF pidx < Len(pages)
  THEN /\ pidx' = pidx + 1
       /\ items' = <<>> /\ iidx' = 0
       /\ pc' = "listing"
  ELSE /\ pc' = "cat_end"
       /\ items' = <<>> /\ iidx' = 0
       /\ UNCHANGED pidx

\* Lines 176-178: the listing page is fetched again for its product links.
FetchListing ==
  /\ pc = "listing"
  /\ \E ok \in Outcomes(PageUrl(cidx, pages[pidx])) :
       IF ok
       THEN /\ items' = ListingOf(cidx, pages[pidx])
            /\ iidx' = 1
            /\ pc' = "items"
            /\ UNCHANGED <<counters, output, catFailed>>
       ELSE /\ HandleCategoryFailure
            /\ UNCHANGED <<items, iidx>>
  /\ UNCHANGED <<others, upstream, params, categories, cidx, cat_success0, pages,
                 next_url, pidx,
                 attempts, nloaded, file0, prev, ckpts, disc>>

\* Lines 181-182: a product already in the seen set is skipped.
SkipItem ==
  /\ pc = "items"
  /\ AlreadySeen(items[iidx], seen)
  /\ Advance
  /\ UNCHANGED <<others, upstream, params, counters, output, categories, cidx,
                 cat_success0, pages, next_url, history>>

\* Lines 183-202: the detail page parses; the record is numbered and kept,
\* the file is checkpointed, and the limit is tested.  raise StopIteration
\* (line 202) is raised inside the try of line 183.
ItemSuccess ==
  /\ pc = "items"
  /\ ~AlreadySeen(items[iidx], seen)
  /\ TRUE \in Outcomes(BookUrl(items[iidx]))
  /\ LET u == items[iidx]
         book == [id |-> IntVal(book_id)] @@ ParseBookDetail(u)
         rows1 == AppendRow(rows, book)
         success1 == success + 1
         raised == LimitReached(limit, success1)
         caught == raised /\ ItemHandlerCatches("StopIteration")
     IN  /\ rows' = rows1
         /\ seen' = seen \cup {u}
         /\ success' = success1
         /\ book_id' = book_id + 1
         /\ IF CheckpointDue(checkpoint_every, success1)
            THEN /\ file' = WriteCsv(rows1)
                 /\ fileExists' = TRUE
                 /\ ckpts' = ckpts + 1
            ELSE UNCHANGED <<file, fileExists, ckpts>>
         /\ fail' = IF caught THEN fail + 1 ELSE fail
         /\ IF raised /\ ~caught
            THEN \* except StopIteration: pass (line 207)
                 /\ pc' = "cat_end"
                 /\ UNCHANGED <<pidx, items, iidx>>
            ELSE Advance
  /\ attempts' = attempts + 1
  /\ disc' = Append(disc, <<cidx, pages[pidx], iidx>>)
  /\ UNCHANGED <<others, upstream, params, categories, cidx, cat_success0, pages,
                 next_url, nloaded, file0, prev, catFailed>>

\* Mutant of ItemFailure: the failed product's URL is marked as seen.
ItemFailure_MarksSeen ==
  /\ pc = "items"
  /\ ~AlreadySeen(items[iidx], seen)
  /\ FALSE \in Outcomes(BookUrl(items[iidx]))
  /\ fail' = fail + 1
  /\ attempts' = attempts + 1
  /\ seen' = seen \cup {items[iidx]}
  /\ Advance
  /\ UNCHANGED <<others, upstream, params, rows, success, book_id, output,
                 categories, cidx, cat_success0, pages, next_url,
                 nloaded, file0, prev, ckpts, catFailed, disc>>

\* Lines 203-205: parse_book_detail raised.
ItemFailure ==
  /\ pc = "items"
  /\ ~AlreadySeen(items[iidx], seen)
  /\ FALSE \in Outcomes(BookUrl(items[iidx]))
  /\ fail' = fail + 1
  /\ attempts' = attempts + 1
  /\ Advance
  /\ UNCHANGED <<others, upstream, params, rows, seen, success, book_id, output,
                 categories, cidx, cat_success0, pages, next_url,
                 nloaded, file0, prev, ckpts, catFailed, disc>>

\* Lines 213-220: the category's summary, then break once the limit is
\* reached, else the next category.
CategoryEnd ==
  /\ pc = "cat_end"
  /\ IF LimitReached(limit, success)
     THEN /\ pc' = "flush"
          /\ UNCHANGED <<cidx, cat_success0, pages, next_url, pidx, items,
                         iidx, catFailed>>
     ELSE IF cidx < Len(categories)
     THEN EnterCategory(cidx + 1)
     ELSE /\ pc' = "flush"
          /\ UNCHANGED <<cidx, cat_success0, pages, next_url, pidx, items,
                         iidx, catFailed>>
  /\ UNCHANGED <<others, upstream, params, counters, output, categories,
                 attempts, nloaded, file0, prev, ckpts, disc>>

\* Mutant of FinalFlush: only the records of this run are written.
FinalFlush_NewOnly ==
  /\ pc = "flush"
  /\ file' = WriteCsv(SubSeq(rows, nloaded + 1, Len(rows)))
  /\ fileExists' = TRUE
  /\ pc' = "done"
  /\ UNCHANGED <<others, upstream, params, counters, cursor, history>>

\* Lines 222-229: the final overwrite of output_csv.
FinalFlush ==
  /\ pc = "flush"
  /\ file' = WriteCsv(rows)
  /\ fileExists' = TRUE
  /\ pc' = "done"
  /\ UNCHANGED <<others, upstream, params, counters, cursor, history>>

RunStep ==
  \/ FetchIndex
  \/ IterPage
  \/ FetchListing
  \/ SkipItem
  \/ ItemSuccess
  \/ ItemFailure
  \/ CategoryEnd
  \/ FinalFlush

\* ------------------------------------------------- parse_book_detail
\* Characters of a text are one-letter strings; "d" stands for any
\* character that is neither a digit, a comma nor a full stop.
DigitVal ==
  [c \in {"0", "1", "2", "3", "4", "5", "6", "7", "8", "9"} |->
     CASE c = "0" -> 0 [] c = "1" -> 1 [] c = "2" -> 2 [] c = "3" -> 3
       [] c = "4" -> 4 [] c = "5" -> 5 [] c = "6" -> 6 [] c = "7" -> 7
       [] c = "8" -> 8 [] c = "9" -> 9]

IsDigit(c) == c \in DOMAIN DigitVal

\* the index of the first digit of s at or after i; Len(s) + 1 if none
RECURSIVE FirstDigit(_, _)
FirstDigit(s, i) ==
  IF i > Len(s) THEN Len(s) + 1
  ELSE IF IsDigit(s[i]) THEN i ELSE FirstDigit(s, i + 1)

\* the index after the run of digits of s that starts at i
RECURSIVE DigitsEnd(_, _)
DigitsEnd(s, i) ==
  IF i <= Len(s) /\ IsDigit(s[i]) THEN DigitsEnd(s, i + 1) ELSE i

\* the digits of a text of digit characters
ToDigits(s) == [i \in 1..Len(s) |-> DigitVal[s[i]]]

\* re.search(r"(\d+)", s): the leftmost longest run of digits
NoMatch == [found |-> FALSE, text |-> <<>>]
SearchInt(s) ==
  LET i == FirstDigit(s, 1)
  IN  IF i > Len(s) THEN NoMatch
      ELSE [found |-> TRUE, text |-> SubSeq(s, i, DigitsEnd(s, i) - 1)]

\* price_text.replace(",", ".")
CommaToDot(s) == [i \in 1..Len(s) |-> IF s[i] = "," THEN "." ELSE s[i]]

\* re.search(r"(\d+(?:\.\d+)?)", s), then float(): whole part and decimals
SearchFloat(s) ==
  LET i == FirstDigit(s, 1)
      j == DigitsEnd(s, i)
      k == DigitsEnd(s, j + 1)
      frac == j <= Len(s) /\ s[j] = "." /\ k > j + 1
  IN  IF i > Len(s) THEN [whole |-> 0, decimals |-> <<>>]
      ELSE [whole |-> ParseInt(ToDigits(SubSeq(s, i, j - 1))),
            decimals |-> IF frac THEN ToDigits(SubSeq(s, j + 1, k - 1))
                         ELSE <<>>]

RATING_MAP ==
  [w \in {"One", "Two", "Three", "Four", "Five"} |->
     CASE w = "One" -> 1 [] w = "Two" -> 2 [] w = "Three" -> 3
       [] w = "Four" -> 4 [] w = "Five" -> 5]

\* next((c for c in rating_class if c in RATING_MAP), "One")
RECURSIVE RatingWord(_)
RatingWord(cs) ==
  IF Len(cs) = 0 THEN "One"
  ELSE IF Head(cs) \in DOMAIN RATING_MAP THEN Head(cs)
  ELSE RatingWord(Tail(cs))

\* RATING_MAP.get(rating_word, 1)
RatingOf(cs) ==
  LET w == RatingWord(cs)
  IN  IF w \in DOMAIN RATING_MAP THEN RATING_MAP[w] ELSE 1

\* select_one(...): the first matching element, or None
NoElement == [found |-> FALSE, text |-> <<>>]
Element(x) == [found |-> TRUE, text |-> x]

\* The detail documents: what each selector of parse_book_detail finds.
Titles == {NoElement, Element(<<"d">>)}
PriceTexts == {<<"d">>, <<"d", "5", "1", ",", "7">>}
StarClasses ==
  {<<"star-rating">>, <<"star-rating", "Three">>, <<"star-rating", "Six">>}
AvailabilityTexts ==
  {<<>>, <<"d", "d">>, <<"d", "(", "2", "2", "d", ")">>, <<"3", "d", "1", "9">>}
Breadcrumbs ==
  {<<>>, <<"Home">>, <<"Home", "Title">>, <<"Home", "Books", "Poetry", "Title">>}
Images == {NoElement, Element(<<"d", ".", "d">>)}

Soups ==
  [title : Titles,
   price : {NoElement} \cup {Element(x) : x \in PriceTexts},
   star : {NoElement} \cup {Element(x) : x \in StarClasses},
   availability : {NoElement} \cup {Element(x) : x \in AvailabilityTexts},
   breadcrumb : Breadcrumbs,
   img : Images]

\* What parse_book_detail ends in: the dict it returns, or the exception
\* that leaves it.
Returned(b) == [ok |-> TRUE, error |-> "", book |-> <<b>>]
Raised(e) == [ok |-> FALSE, error |-> e, book |-> <<>>]

\* urljoin(url, img_src)
UrlJoin(url, src) == <<url, src>>

\* parse_book_detail on the document s fetched from url.  select_one gives
\* None for an element the document lacks; None.get_text raises
\* AttributeError and None[...] raises TypeError.
ParseSoup(url, s) ==
  IF ~s.title.found THEN Raised("AttributeError")
  ELSE IF ~s.price.found THEN Raised("AttributeError")
  ELSE IF ~s.star.found THEN Raised("TypeError")
  ELSE IF ~s.availability.found THEN Raised("AttributeError")
  ELSE IF ~s.img.found THEN Raised("TypeError")
  ELSE
    LET m == SearchInt(s.availability.text)
        n == Len(s.breadcrumb)
    IN  Returned(
          [title |-> s.title.text,
           price |-> SearchFloat(CommaToDot(s.price.text)),
           rating |-> RatingOf(s.star.text),
           availability |-> IF m.found THEN ParseInt(ToDigits(m.text)) ELSE 0,
           category |-> IF n >= 2 THEN s.breadcrumb[n - 1] ELSE "Unknown",
           image_url |-> UrlJoin(url, s.img.text),
           product_page_url |-> url])

\* A detail document with every element and a default in no field.
PlainSoup ==
  [title |-> Element(<<"d">>),
   price |-> Element(<<"d", "5", "1", ",", "7">>),
   star |-> Element(<<"star-rating", "Three">>),
   availability |-> Element(<<"d", "(", "2", "2", "d", ")">>),
   breadcrumb |-> <<"Home", "Books", "Poetry", "Title">>,
   img |-> Element(<<"d", ".", "d">>)]

ParserIdle == soup = PlainSoup /\ parsed = <<>>

\* Line 184: the detail page of a product is parsed.
ParseDetail ==
  /\ parsed = <<>>
  /\ parsed' = <<ParseSoup(BookUrl(1), soup)>>
  /\ UNCHANGED <<soup, crawler, fetcher, api, router>>

\* The next product's detail page.
NextDetail ==
  /\ parsed # <<>>
  /\ soup' \in Soups
  /\ parsed' = <<>>
  /\ UNCHANGED <<crawler, fetcher, api, router>>

\* ------------------------------------------------------------ get_soup
\* What one HTTP request can meet: a response with a status, a failure to
\* connect, or a failure while reading the response.
Status(c) == [kind |-> "status", code |-> c]
ConnectError == [kind |-> "connect", code |-> 0]
ReadError == [kind |-> "read", code |-> 0]
NoAnswer == [kind |-> "none", code |-> 0]
Answers == {Status(200), Status(404), Status(503), ConnectError, ReadError}

STATUS_FORCELIST == {429, 500, 502, 503, 504}

\* Retry(total=n, connect=n, read=n, status=n)
NewRetry(n) == [total |-> n, connect |-> n, read |-> n, status |-> n]

\* Retry.increment: the total and the counter of the failure's kind
Increment(r, a) ==
  [total |-> r.total - 1,
   connect |-> IF a.kind = "connect" THEN r.connect - 1 ELSE r.connect,
   read |-> IF a.kind = "read" THEN r.read - 1 ELSE r.read,
   status |-> IF a.kind = "status" THEN r.status - 1 ELSE r.status]

\* Retry.is_exhausted: some counter fell below zero
IsExhausted(r) == Min(Min(r.total, r.connect), Min(r.read, r.status)) < 0

\* Mutant of IsRetry: every failure is retried, whatever its status.
IsRetry_AnyFailure(a) == a.kind # "status" \/ a.code >= 400

\* What the session's Retry policy retries: connect and read failures of a
\* GET, and the statuses of status_forcelist.
IsRetry(a) ==
  \/ a.kind \in {"connect", "read"}
  \/ a.kind = "status" /\ a.code \in STATUS_FORCELIST

\* build_session(retries=max(3, retries + 2)) of run()
SessionRetries(r) == Max(3, r + 2)

\* Response.raise_for_status raises HTTPError for 4xx and 5xx
RaisesForStatus(c) == c >= 400 /\ c < 600

\* time.sleep(backoff * (attempt + 1)), in units of backoff
BackoffSteps(a) == a + 1

\* Mutant of HasRetryLeft: one attempt too many.
HasRetryLeft_OffByOne(a, r) == a <= r

\* if attempt < retries
HasRetryLeft(a, r) == a < r

FetcherIdle ==
  /\ retries = 0 /\ attempt = 0 /\ retry = NewRetry(0) /\ reqs = 0
  /\ answer = NoAnswer /\ log = <<>> /\ slept = <<>> /\ gpc = "idle"

\* get_soup(url, session, retries=r) is entered.
Enter(r) ==
  /\ retries' = r
  /\ attempt' = 0
  /\ retry' = NewRetry(SessionRetries(r))
  /\ reqs' = 0
  /\ answer' = NoAnswer
  /\ log' = <<>> /\ slept' = <<>>
  /\ gpc' = "get"

\* One HTTP request of session.get, the Retry policy's verdict on its
\* answer and, when session.get is over, lines 45-53 of get_soup.
Request ==
  /\ gpc = "get"
  /\ \E a \in Answers :
       LET r1 == Increment(retry, a)
           again == IsRetry(a) /\ ~IsExhausted(r1)
           failed == a.kind # "status" \/ RaisesForStatus(a.code)
           entry == [ok |-> ~failed, answer |-> a, requests |-> reqs + 1]
       IN  /\ answer' = a
           /\ IF again
              THEN /\ retry' = r1
                   /\ reqs' = reqs + 1
                   /\ UNCHANGED <<attempt, log, slept, gpc>>
              ELSE /\ log' = Append(log, entry)
                   /\ IF ~failed
                      THEN /\ gpc' = "returned"
                           /\ reqs' = reqs + 1
                           /\ UNCHANGED <<attempt, retry, slept>>
                      ELSE IF HasRetryLeft(attempt, retries)
                      THEN /\ slept' = Append(slept, BackoffSteps(attempt))
                           /\ attempt' = attempt + 1
                           /\ retry' = NewRetry(SessionRetries(retries))
                           /\ reqs' = 0
                           /\ gpc' = "get"
                      ELSE /\ gpc' = "raised"
                           /\ reqs' = reqs + 1
                           /\ UNCHANGED <<attempt, retry, slept>>
  /\ UNCHANGED <<retries, crawler, parser, api, router>>

\* The caller's next call of get_soup.
GetSoup ==
  /\ gpc \in {"returned", "raised"}
  /\ \E r \in 0..MaxRetries : Enter(r)
  /\ UNCHANGED <<crawler, parser, api, router>>

\* ------------------------------------------------------------ api/v1.py
SECRET_KEY == "dev-secret"
ADMIN_USER == "admin"
ADMIN_PASSWORD == "admin"

\* What a client may send as credentials and sign a token with.
Usernames == {ADMIN_USER, "guest"}
Passwords == {ADMIN_PASSWORD, "wrong"}
ForeignKey == "not-the-secret"

\* create_token's lifetime in seconds, and decode_token's leeway.
TokenSeconds == TokenMinutes * 60

\* The steps by which the clock (in seconds) moves between requests.
TickSteps == {1, Leeway - 1, TokenSeconds}

\* jwt.encode(payload, key): the claims and the signature over them
Encode(payload, key) == [wellformed |-> TRUE, payload |-> payload, sig |-> key]

\* A string that is not a JWT.
Garbage ==
  [wellformed |-> FALSE, payload |-> [sub |-> "", iat |-> 0, exp |-> 0],
   sig |-> ""]

\* create_token(sub, minutes) at time now
CreateToken(sub, minutes, now) ==
  Encode([sub |-> sub, iat |-> now, exp |-> now + minutes * 60], SECRET_KEY)

Decoded(payload) == [ok |-> TRUE, error |-> "", payload |-> payload]
DecodeError(e) == [ok |-> FALSE, error |-> e, payload |-> Garbage.payload]

\* Mutant of DecodeToken: the signature is not verified.
DecodeToken_NoSignature(tok, now) ==
  IF ~tok.wellformed THEN DecodeError("InvalidTokenError")
  ELSE IF tok.payload.exp <= now - Leeway
  THEN DecodeError("ExpiredSignatureError")
  ELSE Decoded(tok.payload)

\* jwt.decode(token, SECRET_KEY, algorithms=[JWT_ALG],
\*            options={"verify_iat": False}, leeway=10) at time now
DecodeToken(tok, now) ==
  IF ~tok.wellformed THEN DecodeError("InvalidTokenError")
  ELSE IF tok.sig # SECRET_KEY THEN DecodeError("InvalidTokenError")
  ELSE IF tok.payload.exp <= now - Leeway
  THEN DecodeError("ExpiredSignatureError")
  ELSE Decoded(tok.payload)

\* The Authorization header: absent, or "<scheme> <token>".
NoHeader == [present |-> FALSE, scheme |-> "", token |-> <<>>]
Header(scheme, tok) == [present |-> TRUE, scheme |-> scheme, token |-> tok]

\* str.lower of a scheme
Lower(s) == IF s \in {"Bearer", "bearer"} THEN "bearer" ELSE "basic"

\* bearer_auth: the user of the token, or HTTP 401
BearerAuth(h, now) ==
  IF ~h.present THEN [status |-> 401, user |-> ""]
  ELSE IF Lower(h.scheme) # "bearer" \/ h.token = <<>>
  THEN [status |-> 401, user |-> ""]
  ELSE LET d == DecodeToken(h.token[1], now)
       IN  IF d.ok THEN [status |-> 200, user |-> d.payload.sub]
           ELSE [status |-> 401, user |-> ""]

\* The headers a client can send at time now: none, a wrong scheme, no
\* token, a string that is no token, a token it signed itself, and the
\* token it holds, as issued or signed anew with a key of its own.
Headers(now) ==
  {NoHeader, Header("Bearer", <<>>), Header("Bearer", <<Garbage>>),
   Header("Bearer", <<Encode(CreateToken(ADMIN_USER, TokenMinutes, now).payload,
                             ForeignKey)>>)}
  \cup (IF held = <<>> THEN {}
        ELSE {Header("Bearer", held), Header("bearer", held),
              Header("Basic", held),
              Header("Bearer", <<Encode(held[1].payload, ForeignKey)>>)})

\* What a request presented.  A token is "lapsed" from its exp on, for the
\* seconds of the leeway, and "expired" after them.
Presented(h, now) ==
  IF ~h.present THEN "missing"
  ELSE IF Lower(h.scheme) # "bearer" \/ h.token = <<>> THEN "malformed"
  ELSE IF ~h.token[1].wellformed THEN "malformed"
  ELSE IF h.token[1].sig # SECRET_KEY THEN "forged"
  ELSE IF now >= h.token[1].payload.exp + Leeway THEN "expired"
  ELSE IF now >= h.token[1].payload.exp THEN "lapsed"
  ELSE "valid"

\* _read_csv: an empty frame when the file is absent, else the rows of the
\* file with the id column through pd.to_numeric
ReadDataFrame(exists, f) ==
  IF ~exists THEN <<>>
  ELSE [i \in 1..Len(f) |->
          [id |-> ParseInt(f[i].id), category |-> f[i].category,
           product_page_url |-> f[i].product_page_url]]

\* functools.lru_cache(maxsize=1) around load_df
EmptyCache == [loaded |-> FALSE, df |-> <<>>]
Cached(df) == [loaded |-> TRUE, df |-> df]

\* load_df(): the cached frame, read from the file on a miss
LoadDf == IF cache.loaded THEN cache ELSE Cached(ReadDataFrame(fileExists, file))

\* Mutant of CacheClear: the cache keeps its frame.
CacheClear_Keep(c) == c

\* load_df.cache_clear()
CacheClear(c) == EmptyCache

\* Mutant of WriteAllowed: the switch is not read.
WriteAllowed_Always(flag) == TRUE

\* if not ALLOW_SCRAPER_WRITE: return {"ok": False, ...}
WriteAllowed(flag) == flag

\* run() as scraping_trigger calls it, from its resume load to its final
\* flush: the rows rs, extended by the first n products from u on that no
\* row holds yet, numbered from bid.
RECURSIVE Crawl(_, _, _, _)
Crawl(rs, bid, u, n) ==
  IF n = 0 \/ u > MaxItems THEN rs
  ELSE IF AlreadySeen(u, SeenOf(rs)) THEN Crawl(rs, bid, u + 1, n)
  ELSE Crawl(AppendRow(rs, [id |-> IntVal(bid), category |-> CatNames[1],
                            product_page_url |-> u]),
             bid + 1, u + 1, n - 1)

\* The file run(resume=res) leaves when n detail pages parse.
RunScraper(exists, f, res, n) ==
  LET loaded == IF res /\ exists THEN ReadCsv(f) ELSE <<>>
  IN  WriteCsv(Crawl(loaded, ResumeBookId(1, loaded), 1, n))

\* The reply to a request, with what the request presented.
Reply(ep, cred, status) ==
  [ep |-> ep, cred |-> cred, status |-> status, user |-> "", token |-> <<>>,
   ran |-> FALSE, ok |-> FALSE, body |-> <<>>, stale |-> FALSE]

ApiIdle ==
  /\ clock = 0 /\ ticks = 0 /\ held = <<>> /\ allow_write = FALSE
  /\ cache = EmptyCache /\ reply = Reply("", "", 0)

\* Time passes between two requests.
Tick ==
  /\ ticks < MaxTicks
  /\ \E d \in TickSteps : clock' = clock + d
  /\ ticks' = ticks + 1
  /\ UNCHANGED <<held, allow_write, cache, reply, crawler, parser, fetcher,
                 router>>

\* The client keeps the token it holds or takes the one it was sent.
Keep(tok) == held' \in {held, <<tok>>}

\* POST /api/v1/auth/login
Login ==
  /\ \E u \in Usernames, p \in Passwords :
       IF u # ADMIN_USER \/ p # ADMIN_PASSWORD
       THEN /\ reply' = Reply("login", "other", 401)
            /\ UNCHANGED held
       ELSE LET tok == CreateToken(u, TokenMinutes, clock)
            IN  /\ reply' = [Reply("login", "admin", 200) EXCEPT
                               !.user = u, !.token = <<tok>>]
                /\ Keep(tok)
  /\ UNCHANGED <<clock, ticks, allow_write, cache, crawler, parser, fetcher,
                 router>>

\* POST /api/v1/auth/refresh
Refresh ==
  /\ \E h \in Headers(clock) :
       LET a == BearerAuth(h, clock)
           tok == CreateToken(ADMIN_USER, TokenMinutes, clock)
       IN  IF a.status # 200
           THEN /\ reply' = Reply("refresh", Presented(h, clock), a.status)
                /\ UNCHANGED held
           ELSE /\ reply' = [Reply("refresh", Presented(h, clock), 200) EXCEPT
                               !.user = ADMIN_USER, !.token = <<tok>>]
                /\ Keep(tok)
  /\ UNCHANGED <<clock, ticks, allow_write, cache, crawler, parser, fetcher,
                 router>>

\* GET /api/v1/auth/whoami
Whoami ==
  /\ \E h \in Headers(clock) :
       LET a == BearerAuth(h, clock)
       IN  reply' = [Reply("whoami", Presented(h, clock), a.status) EXCEPT
                       !.user = a.user]
  /\ UNCHANGED <<clock, ticks, held, allow_write, cache, crawler, parser,
                 fetcher, router>>

\* GET /api/v1/health, one of the endpoints that read through load_df
Health ==
  /\ cache' = LoadDf
  /\ reply' = [Reply("health", "", 200) EXCEPT !.body = LoadDf.df]
  /\ UNCHANGED <<clock, ticks, held, allow_write, upstream, params, pc,
                 counters, cursor, output, history, parser, fetcher, router>>

\* POST /api/v1/scraping/trigger.  The crawl it starts either leaves run()
\* at the category-index fetch (up = FALSE) or ends with the final flush.
ScrapingTrigger ==
  /\ \E h \in Headers(clock) :
       LET a == BearerAuth(h, clock)
           cred == Presented(h, clock)
       IN  IF a.status # 200
           THEN /\ reply' = Reply("trigger", cred, 401)
                /\ UNCHANGED <<output, cache>>
           ELSE IF ~WriteAllowed(allow_write)
           THEN /\ reply' = Reply("trigger", cred, 200)
                /\ UNCHANGED <<output, cache>>
           ELSE \E res \in BOOLEAN, n \in 0..MaxItems, up \in BOOLEAN :
                  LET written == RunScraper(fileExists, file, res, n)
                  IN  IF ~up
                      THEN /\ reply' = [Reply("trigger", cred, 500) EXCEPT
                                          !.ran = TRUE]
                           /\ UNCHANGED <<output, cache>>
                      ELSE /\ file' = written
                           /\ fileExists' = TRUE
                           /\ cache' = CacheClear(cache)
                           /\ reply' =
                                [Reply("trigger", cred, 200) EXCEPT
                                   !.ran = TRUE, !.ok = TRUE,
                                   !.stale = cache.loaded /\
                                     cache.df # ReadDataFrame(TRUE, written)]
  /\ UNCHANGED <<clock, ticks, held, allow_write, upstream, params, pc,
                 counters, cursor, history, parser, fetcher, router>>

\* ------------------------------------------------------ the route table
\* A path is the sequence of its segments; "{book_id}" is a path parameter.
Segments ==
  {"books", "top-rated", "price-range", "search", "categories", "stats",
   "overview", "health", "1", "42", "x"}

\* int(segment) succeeds
IsIntSegment(s) == s \in {"1", "42"}

Api(rest) == <<"api", "v1">> \o rest

Paths ==
  {<<>>} \cup {Api(<<a>>) : a \in Segments}
         \cup {Api(<<a, b>>) : a \in Segments, b \in Segments}

\* The GET routes in the order of their @app.get decorators.
Routes ==
  <<[pattern |-> Api(<<"health">>), handler |-> "health"],
    [pattern |-> <<>>, handler |-> "root_redirect"],
    [pattern |-> Api(<<"books">>), handler |-> "list_books"],
    [pattern |-> Api(<<"books", "top-rated">>), handler |-> "top_rated_books"],
    [pattern |-> Api(<<"books", "price-range">>),
     handler |-> "books_price_range"],
    [pattern |-> Api(<<"books", "{book_id}">>), handler |-> "get_book"],
    [pattern |-> Api(<<"books", "search">>), handler |-> "search_books"],
    [pattern |-> Api(<<"categories">>), handler |-> "list_categories"],
    [pattern |-> Api(<<"stats", "overview">>), handler |-> "stats_overview"],
    [pattern |-> Api(<<"stats", "categories">>),
     handler |-> "stats_categories"]>>

\* A route matches a path segment by segment; a path parameter matches any
\* segment.
Matches(pattern, p) ==
  /\ Len(pattern) = Len(p)
  /\ \A i \in 1..Len(p) : pattern[i] = "{book_id}" \/ pattern[i] = p[i]

\* The router takes the first route, in declaration order, that matches.
RECURSIVE FirstMatch(_, _)
FirstMatch(p, i) ==
  IF i > Len(Routes) THEN 0
  ELSE IF Matches(Routes[i].pattern, p) THEN i
  ELSE FirstMatch(p, i + 1)

\* The handler a GET of path p reaches and the status the routing gives:
\* 404 without a route, 422 when book_id: int rejects the segment, else 200
\* (the handler's own reply).
Dispatch(p) ==
  LET i == FirstMatch(p, 1)
  IN  IF i = 0 THEN [handler |-> "", status |-> 404]
      ELSE IF Routes[i].handler = "get_book" /\ ~IsIntSegment(p[Len(p)])
      THEN [handler |-> "get_book", status |-> 422]
      ELSE [handler |-> Routes[i].handler, status |-> 200]

RouterIdle == path = <<>> /\ routed = <<>>

\* A GET request is routed.
Route ==
  /\ routed = <<>>
  /\ routed' = <<Dispatch(path)>>
  /\ UNCHANGED <<path, crawler, parser, fetcher, api>>

\* The next GET request arrives.
NextRequest ==
  /\ routed # <<>>
  /\ path' \in Paths
  /\ routed' = <<>>
  /\ UNCHANGED <<crawler, parser, fetcher, api>>

\* ------------------------------------------------------ specifications
\* The crawler at rest, for the specifications of the other components.
RunIdle ==
  /\ RunInit
  /\ site = [nc |-> 0, np |-> 1, k |-> 1, ov |-> 0]
  /\ failing = {}

Init == RunInit /\ ParserIdle /\ FetcherIdle /\ ApiIdle /\ RouterIdle

Next == StartRun \/ RunStep

Spec == Init /\ [][Next]_vars

\* run() is sequential code: a step that can be taken is taken.
FairSpec == Spec /\ WF_vars(RunStep)

\* parse_book_detail over the detail documents.
ParserInit ==
  /\ RunIdle /\ FetcherIdle /\ ApiIdle /\ RouterIdle
  /\ soup \in Soups /\ parsed = <<>>

ParserNext == ParseDetail \/ NextDetail

ParserSpec == ParserInit /\ [][ParserNext]_vars

\* get_soup against an upstream that answers each request as it likes.
FetchInit ==
  /\ RunIdle /\ ParserIdle /\ ApiIdle /\ RouterIdle
  /\ retries \in 0..MaxRetries
  /\ attempt = 0 /\ retry = NewRetry(SessionRetries(retries)) /\ reqs = 0
  /\ answer = NoAnswer /\ log = <<>> /\ slept = <<>> /\ gpc = "get"

FetchNext == Request \/ GetSoup

FetchSpec == FetchInit /\ [][FetchNext]_vars

\* The API under any sequence of requests; ALLOW_SCRAPER_WRITE is read
\* from the environment when the module is loaded.
ApiInit ==
  /\ RunIdle /\ ParserIdle /\ FetcherIdle /\ RouterIdle
  /\ clock = 0 /\ ticks = 0 /\ held = <<>>
  /\ allow_write \in BOOLEAN
  /\ cache = EmptyCache /\ reply = Reply("", "", 0)

ApiNext ==
  Tick \/ Login \/ Refresh \/ Whoami \/ Health \/ ScrapingTrigger

ApiSpec == ApiInit /\ [][ApiNext]_vars

\* The route table under any sequence of GET requests.
RouterInit ==
  /\ RunIdle /\ ParserIdle /\ FetcherIdle /\ ApiIdle
  /\ path \in Paths /\ routed = <<>>

RouterNext == Route \/ NextRequest

RouterSpec == RouterInit /\ [][RouterNext]_vars

\* ------------------------------------------------------------ claims
TotalAvailable == Cardinality(Products(site))

\* Every fetch and every parse of the upstream succeeds.
AllSucceed == failing = {}

\* No rows were loaded from an earlier file.
FreshRun == nloaded = 0

\* The run is between its index fetch and its end.
InRun == pc \in {"paginate", "listing", "items", "cat_end", "flush"}

\* C1: a fresh run with limit = L over an upstream in which every fetch and
\* parse succeeds ends with exactly min(L, total_available) records in the
\* output file.
C1_LimitTermination ==
  (pc = "done" /\ FreshRun /\ AllSucceed /\ limit.set)
    => Len(file) = Min(limit.v, TotalAvailable)

\* C2: once the success counter has reached the limit, no further product
\* detail page is fetched and no further listing page or category is
\* started: the run goes to the category summary and the final flush.
C2_StopAtLimit ==
  [][(InRun /\ LimitReached(limit, success))
      => (attempts' = attempts /\ pc' \in {"cat_end", "flush", "done"})]_vars

\* The rows read from the earlier file, and the rows this run appended.
LoadedRows == SubSeq(rows, 1, nloaded)
NewRows == SubSeq(rows, nloaded + 1, Len(rows))

\* C3: after a run without limit has completed, a run with resume = true
\* against the same file and the same deterministic upstream appends no
\* record and leaves the file with the same rows, order and ids.
C3_ResumeIdempotent ==
  (pc = "done" /\ prev = "full" /\ resume /\ ~transient)
    => /\ success = 0
       /\ Len(rows) = nloaded
       /\ file0.exists
       /\ file = file0.rows

\* A resumed second run that met the same failing product again.
C3_Witness ==
  /\ pc = "done" /\ prev = "full" /\ resume /\ ~transient
  /\ Len(file) >= 2
  /\ fail >= 1

DistinctUrls(rs) ==
  \A i, j \in 1..Len(rs) :
    i # j => rs[i].product_page_url # rs[j].product_page_url

\* C4: at every point of every run, fresh or resumed, no two records of the
\* in-memory list share a product_page_url, and neither do two rows of the
\* output file (checkpoint or final), also when a product is listed on
\* several pages or in several categories.
C4_Dedup == DistinctUrls(rows) /\ DistinctUrls(file)

C4_Witness ==
  /\ pc = "done"
  /\ site.ov = 1 /\ site.nc = 2
  /\ nloaded >= 1 /\ success >= 1
  /\ Len(file) = TotalAvailable

\* The number in the id column of a row, and the largest one loaded.
IdOf(row) == IF row.id.k = "int" THEN row.id.n ELSE ParseInt(row.id.s)

MaxLoadedId ==
  LET ids == {IdOf(rows[i]) : i \in 1..nloaded}
  IN  IF ids = {} THEN 0 ELSE CHOOSE m \in ids : \A x \in ids : x <= m

\* C5: the ids given to new records increase strictly in assignment order
\* and none is given twice; a failed item consumes no id; a fresh run starts
\* at 1 and a resumed run at max(existing id) + 1, above every loaded id.
C5_IdMonotonic ==
  pc # "idle" =>
    /\ \A i \in 1..Len(NewRows) :
         /\ NewRows[i].id = IntVal(MaxLoadedId + i)
         /\ \A j \in 1..nloaded : IdOf(rows[j]) < IdOf(NewRows[i])
    /\ \A i, j \in 1..Len(rows) : i < j => IdOf(rows[i]) # IdOf(rows[j])
    /\ book_id = MaxLoadedId + success + 1
    /\ Len(NewRows) = success

C5_Witness ==
  /\ pc = "done"
  /\ nloaded >= 2 /\ success >= 1 /\ fail >= 1 /\ ~limit.set

\* C6: the file is checkpointed exactly when the success counter becomes a
\* positive multiple of checkpoint_every (never when it is 0); the write is
\* a full overwrite, after which the file holds the loaded rows followed by
\* this run's successes, as the in-memory list does.
C6_CheckpointConsistency ==
  [][/\ InRun' =>
          ckpts' = IF checkpoint_every' = 0 THEN 0
                   ELSE success' \div checkpoint_every'
     /\ ckpts' = ckpts + 1 =>
          /\ success' = success + 1
          /\ checkpoint_every # 0 /\ success' % checkpoint_every = 0
          /\ fileExists'
          /\ file' = WriteCsv(rows')
          /\ Len(file') = nloaded + success'
     /\ (InRun /\ pc # "flush" /\ ckpts' = ckpts) => output' = output]_vars

C6_Witness ==
  /\ pc = "items"
  /\ nloaded >= 1
  /\ ckpts = 2
  /\ file = WriteCsv(rows)

\* C7: when the listing fetch of a category fails, the run does not abort:
\* the failing step loses no record and leads to the category summary; from
\* there the next category is started (unless the limit is reached or no
\* category is left) and the run reaches the final flush, which writes
\* every record collected before.
C7_CategoryFailureIsolation ==
  /\ [][/\ (catFailed' /\ ~catFailed) =>
             /\ pc' = "cat_end"
             /\ rows' = rows /\ seen' = seen /\ success' = success
             /\ output' = output
        /\ (pc = "cat_end" /\ catFailed /\ ~LimitReached(limit, success)) =>
             /\ rows' = rows
             /\ IF cidx < Len(categories)
                THEN pc' = "paginate" /\ cidx' = cidx + 1
                ELSE pc' = "flush"
        /\ InRun => IsPrefix(rows, rows')
        /\ pc = "flush" => (pc' = "done" /\ file' = WriteCsv(rows))]_vars
  /\ ((pc = "cat_end" /\ catFailed) ~> pc = "done")

C7_Witness ==
  /\ pc = "done"
  /\ site.nc = 2
  /\ failing = {PageUrl(1, 1)} /\ ~transient
  /\ FreshRun /\ success >= 2
  /\ Len(file) = success

\* The scenario of C8: the index lists Travel and Poetry, Travel has one
\* listing page with two products that parse, Poetry's listing fetch fails.
Scenario ==
  /\ site = [nc |-> 2, np |-> 1, k |-> 2, ov |-> 0]
  /\ failing = {PageUrl(2, 1)} /\ ~transient
  /\ pc # "idle" /\ FreshRun

TravelRows ==
  <<[id |-> <<1>>, category |-> "Travel", product_page_url |-> 1],
    [id |-> <<2>>, category |-> "Travel", product_page_url |-> 2]>>

\* C8 as stated: in the scenario the run does not abort, the output holds
\* the two Travel records with ids 1 and 2, and the failure counter of the
\* final summary is at least 1.
C8_ScenarioAsStated ==
  Scenario =>
    /\ pc # "aborted"
    /\ pc = "done" => (file = TravelRows /\ fail >= 1)

\* C8 amended: in the scenario, run without item limit, the run does not
\* abort, the output holds the two Travel records with ids 1 and 2, and the
\* failure counter of the final summary is 0: a skipped category is logged
\* but not counted.
C8_ScenarioAmended ==
  (Scenario /\ ~limit.set) =>
    /\ pc # "aborted"
    /\ fail = 0
    /\ pc = "done" => file = TravelRows

C8_Witness == Scenario /\ pc = "done" /\ ~limit.set /\ fail = 0

\* C9: a run whose category-index fetch succeeded reaches the final flush
\* and Done whatever fetches fail afterwards; a run aborts only at the
\* category-index fetch, and then the output file is as the run found it.
C9_Termination ==
  /\ InRun ~> pc = "done"
  /\ [][/\ pc' = "aborted" => pc \in {"index", "aborted"}
        /\ pc' = "aborted" =>
             (fileExists' = file0'.exists /\ file' = file0'.rows)
        /\ pc = "index" => output' = output]_vars

C9_Witness ==
  /\ pc = "done"
  /\ fail >= 1 /\ ~limit.set /\ transient
  /\ success >= 1

\* (category, page, position) a comes before b in discovery order.
LexLess(a, b) ==
  \/ a[1] < b[1]
  \/ a[1] = b[1] /\ a[2] < b[2]
  \/ a[1] = b[1] /\ a[2] = b[2] /\ a[3] < b[3]

\* C10: the final flush overwrites the file with the whole in-memory list:
\* the rows loaded on resume in their order, then this run's records in
\* discovery order (category, page, listing position); no record is removed
\* or moved between its creation and the flush.
C10_FinalFlush ==
  [][/\ pc' = "done" =>
          /\ fileExists'
          /\ file' = WriteCsv(rows')
          /\ Len(file') = nloaded' + success'
          /\ SubSeq(file', 1, nloaded') =
               (IF resume' /\ file0'.exists THEN file0'.rows ELSE <<>>)
          /\ Len(disc') = success'
          /\ \A i \in 1..Len(disc') :
               /\ file'[nloaded' + i].product_page_url =
                    ProductAt(site, disc'[i][1], disc'[i][2], disc'[i][3])
               /\ \A j \in 1..Len(disc') : i < j => LexLess(disc'[i], disc'[j])
     /\ InRun => IsPrefix(rows, rows')]_vars

C10_Witness ==
  /\ pc = "done"
  /\ nloaded >= 1 /\ success >= 2
  /\ disc[1][1] # disc[2][1]

\* The document has every element parse_book_detail reads, the availability
\* element aside.
OtherElementsFound(s) ==
  s.title.found /\ s.price.found /\ s.star.found /\ s.img.found

\* The document has no availability phrase: the element is not there, or
\* its text holds no count.
MissingAvailability(s) ==
  ~s.availability.found \/ ~SearchInt(s.availability.text).found

\* No class of the star-rating element is a rating word.
UnrecognizedRating(s) ==
  s.star.found /\ \A i \in 1..Len(s.star.text) :
                    s.star.text[i] \notin DOMAIN RATING_MAP

\* C11: parse_book_detail on a document without availability phrase yields
\* a record, not a failure, with availability = 0; on one with an
\* unrecognized rating word a record with rating = 1; on one with a
\* breadcrumb of fewer than two entries a record with category "Unknown".
C11_ParserDefaults ==
  (parsed # <<>> /\ OtherElementsFound(soup)) =>
    /\ MissingAvailability(soup) =>
         (parsed[1].ok /\ parsed[1].book[1].availability = 0)
    /\ (UnrecognizedRating(soup) /\ soup.availability.found) =>
         (parsed[1].ok /\ parsed[1].book[1].rating = 1)
    /\ (Len(soup.breadcrumb) < 2 /\ soup.availability.found) =>
         (parsed[1].ok /\ parsed[1].book[1].category = "Unknown")

\* C15: a step in which a product's detail page is attempted and fails
\* adds one to the failure counter, appends no record, adds nothing to the
\* seen set, leaves the next id, the success counter and the file alone,
\* and goes on to the next product of the listing page (to the next page or
\* the category's end after the last one): the category is not aborted.
C15_ItemFailureIsolation ==
  [][(attempts' = attempts + 1 /\ success' = success) =>
       /\ fail' = fail + 1
       /\ rows' = rows /\ seen' = seen /\ book_id' = book_id
       /\ output' = output
       /\ cidx' = cidx /\ ~catFailed'
       /\ IF iidx < Len(items)
          THEN pc' = "items" /\ iidx' = iidx + 1 /\ pidx' = pidx
          ELSE IF pidx < Len(pages)
          THEN pc' = "listing" /\ pidx' = pidx + 1
          ELSE pc' = "cat_end"]_vars

\* The first product of a listing page failed, the second one was kept.
C15_Witness ==
  /\ pc \in {"items", "listing", "cat_end"}
  /\ fail = 1 /\ success = 1 /\ ~limit.set /\ FreshRun
  /\ Len(disc) = 1 /\ disc[1][3] = 2
  /\ failing = {BookUrl(ProductAt(site, disc[1][1], disc[1][2], 1))}
  /\ ProductAt(site, disc[1][1], disc[1][2], 1) \notin seen
  /\ Len(rows) = 1 /\ book_id = 2

\* C12 as stated: a login with the admin credentials returns a token, any
\* other login returns 401 and no token; whoami with a token before its
\* expiry returns the user it was issued to; whoami with a missing,
\* malformed, wrongly signed or expired token returns 401.
C12_AuthRoundTrip ==
  /\ (reply.ep = "login" /\ reply.cred = "admin") =>
       (reply.status = 200 /\ reply.token # <<>>)
  /\ (reply.ep = "login" /\ reply.cred = "other") =>
       (reply.status = 401 /\ reply.token = <<>>)
  /\ (reply.ep = "whoami" /\ reply.cred = "valid") =>
       (reply.status = 200 /\ reply.user = ADMIN_USER)
  /\ (reply.ep = "whoami" /\
      reply.cred \in {"missing", "malformed", "forged", "lapsed", "expired"})
       => reply.status = 401

\* C12 amended: as above, but a token is refused as expired only from 10
\* seconds after its expiry on; until then whoami still returns the user.
C12_AuthRoundTripWithLeeway ==
  /\ (reply.ep = "login" /\ reply.cred = "admin") =>
       (reply.status = 200 /\ reply.token # <<>>
        /\ reply.token[1].payload.sub = reply.user
        /\ reply.token[1].payload.exp = reply.token[1].payload.iat + TokenSeconds)
  /\ (reply.ep = "login" /\ reply.cred = "other") =>
       (reply.status = 401 /\ reply.token = <<>>)
  /\ (reply.ep = "whoami" /\ reply.cred \in {"valid", "lapsed"}) =>
       (reply.status = 200 /\ reply.user = ADMIN_USER)
  /\ (reply.ep = "whoami" /\
      reply.cred \in {"missing", "malformed", "forged", "expired"})
       => reply.status = 401

\* whoami answered a token presented 9 seconds after its expiry.
C12_Witness ==
  /\ reply.ep = "whoami" /\ reply.cred = "lapsed" /\ reply.status = 200
  /\ held # <<>> /\ clock = held[1].payload.exp + Leeway - 1

\* The step is a request to the scraping trigger.
TriggerStep == reply'.ep = "trigger" /\ ticks' = ticks

\* C13 as stated: run() is invoked, and the file written, only by a
\* scraping-trigger request with a valid, unexpired token while
\* ALLOW_SCRAPER_WRITE is on; any other trigger request returns 401 or
\* {ok: false} and leaves the file and the cache as they were.
C13_AdminGating ==
  [][/\ (output' # output \/ (reply'.ran /\ ticks' = ticks)) =>
          (TriggerStep /\ reply'.cred = "valid" /\ allow_write)
     /\ (TriggerStep /\ ~(reply'.cred = "valid" /\ allow_write)) =>
          /\ ~reply'.ran
          /\ reply'.status = 401 \/ (reply'.status = 200 /\ ~reply'.ok)
          /\ output' = output /\ cache' = cache]_vars

\* C13 amended: as above, the token being valid and either unexpired or
\* expired for less than 10 seconds.
C13_AdminGatingWithLeeway ==
  [][/\ (output' # output \/ (reply'.ran /\ ticks' = ticks)) =>
          (TriggerStep /\ reply'.cred \in {"valid", "lapsed"} /\ allow_write)
     /\ (TriggerStep /\ ~(reply'.cred \in {"valid", "lapsed"} /\ allow_write))
          => /\ ~reply'.ran
             /\ reply'.status = 401 \/ (reply'.status = 200 /\ ~reply'.ok)
             /\ output' = output /\ cache' = cache]_vars

\* A trigger request with a token past its expiry started a crawl that
\* wrote the file.
C13_Witness ==
  /\ reply.ep = "trigger" /\ reply.cred = "lapsed"
  /\ reply.ran /\ reply.ok /\ allow_write
  /\ fileExists /\ Len(file) = 2

\* C14: the read endpoints serve the cached frame; when a crawl started by
\* the trigger has completed the cache is empty, so that the next read
\* loads and serves the file as the final flush left it; a cached frame
\* never differs from the file.
C14_SnapshotReload ==
  /\ [](cache.loaded => cache.df = ReadDataFrame(fileExists, file))
  /\ [](reply.ep = "health" =>
          (cache.loaded /\ reply.body = ReadDataFrame(fileExists, file)))
  /\ [][(TriggerStep /\ reply'.ok) => ~cache'.loaded]_vars

\* A completed crawl dropped a cached frame that the file no longer matches.
C14_Witness ==
  /\ reply.ep = "trigger" /\ reply.ok /\ reply.stale
  /\ ~cache.loaded /\ Len(file) = 2

\* The sleeps of a call whose first n attempts failed, in units of backoff.
LinearSleeps(n) == [k \in 1..n |-> k]

\* C16: get_soup(url, retries=R) makes at most R + 1 session.get attempts;
\* it returns at the first attempt that succeeds and makes no attempt after
\* it; it sleeps backoff * k after the k-th failed attempt, and only when
\* another attempt follows; it raises exactly when all R + 1 attempts fail.
C16_BoundedRetry ==
  gpc # "idle" =>
    /\ Len(log) <= retries + 1
    /\ \A i \in 1..(Len(log) - 1) : ~log[i].ok
    /\ gpc = "get" =>
         (Len(log) = attempt /\ attempt <= retries
          /\ slept = LinearSleeps(attempt))
    /\ gpc = "returned" =>
         (log[Len(log)].ok /\ slept = LinearSleeps(Len(log) - 1))
    /\ gpc = "raised" => slept = LinearSleeps(retries)
    /\ gpc = "raised" <=>
         (Len(log) = retries + 1 /\ \A i \in 1..Len(log) : ~log[i].ok)

\* The third attempt of get_soup(retries=2) succeeded.
C16_Witness ==
  /\ gpc = "returned" /\ retries = 2
  /\ Len(log) = 3 /\ slept = <<1, 2>>
  /\ log[1].answer = Status(404) /\ log[2].answer = ConnectError

\* A 4xx or 5xx status the session's Retry policy does not retry.
NonRetryable(a) ==
  a.kind = "status" /\ RaisesForStatus(a.code) /\ a.code \notin STATUS_FORCELIST

\* C17 as stated: a fetch whose response has a 4xx/5xx status outside
\* {429, 500, 502, 503, 504} fails at once, with no further request for the
\* URL; a connect or read failure and a status of that set are retried.
C17_NonRetryable ==
  [][/\ (gpc = "get" /\ NonRetryable(answer')) => gpc' = "raised"
     /\ (gpc = "get" /\ IsRetry(answer') /\ retry.total > 0) =>
          (gpc' = "get" /\ attempt' = attempt /\ reqs' = reqs + 1)]_vars

\* C17 amended: such a status is not retried by the session's Retry policy:
\* the session.get call that receives it sends no further request and the
\* attempt fails; get_soup then treats it as any failed attempt and tries
\* again while attempts remain (a URL that always answers with it is thus
\* requested R + 1 times, once per attempt).  A connect or read failure
\* and a status of the set are retried within session.get while its Retry
\* budget lasts.
C17_NonRetryableInSession ==
  [][/\ (gpc = "get" /\ NonRetryable(answer')) =>
          /\ log' = Append(log, [ok |-> FALSE, answer |-> answer',
                                 requests |-> reqs + 1])
          /\ IF attempt < retries
             THEN gpc' = "get" /\ attempt' = attempt + 1 /\ reqs' = 0
             ELSE gpc' = "raised"
     /\ (gpc = "get" /\ IsRetry(answer') /\ retry.total > 0) =>
          (gpc' = "get" /\ attempt' = attempt /\ reqs' = reqs + 1)]_vars

\* get_soup(retries=2) met 404 three times and raised.
C17_Witness ==
  /\ gpc = "raised" /\ retries = 2
  /\ Len(log) = 3
  /\ \A i \in 1..3 : log[i].answer = Status(404) /\ log[i].requests = 1

\* C18: GET /api/v1/books/top-rated, /api/v1/books/price-range and
\* /api/v1/books/search each reach their own handler, never get_book with
\* a 422 for a book_id that is no integer.
C18_RoutePrecedence ==
  routed # <<>> =>
    /\ path = Api(<<"books", "top-rated">>) =>
         routed[1] = [handler |-> "top_rated_books", status |-> 200]
    /\ path = Api(<<"books", "price-range">>) =>
         routed[1] = [handler |-> "books_price_range", status |-> 200]
    /\ path = Api(<<"books", "search">>) =>
         routed[1] = [handler |-> "search_books", status |-> 200]

\* C19: at every point of a run each attempted product has incremented
\* exactly one of the two counters: success + fail is the number of
\* attempted items and the in-memory list holds the loaded rows plus one
\* record per success, also in runs that reach the item limit.
C19_CounterAccounting ==
  pc # "idle" =>
    /\ success + fail = attempts
    /\ Len(rows) = nloaded + success

====
